---- MODULE Spec2Model ----
(***************************************************************************)
(* Model of fred_monday_sync.py: one run of the script that enumerates the *)
(* rows of a Monday board, fetches the latest FRED observation for every   *)
(* row that names a series and writes it back with one mutation per row.   *)
(*                                                                         *)
(* Text is modelled as a sequence of one-character strings, so that        *)
(* strip(), upper(), replace(), float() and str() are computed and not     *)
(* assumed.  A Python float is modelled as an exact sign-magnitude decimal *)
(* with seven fractional digits, [neg, i, f] = (-1)^neg * (i + f / Frac);  *)
(* binary representation error is not modelled, and where the result of    *)
(* round(x, 2) depends on it (an exact decimal tie) both neighbours are    *)
(* possible outcomes.                                                      *)
(***************************************************************************)
EXTENDS Integers, Sequences, FiniteSets, TLC

\* Python's None, in a slot that holds a string, a text or an object
None     == "None"
NoneText == <<"None">>
Null     == [null |-> TRUE]
IsNull(x) == DOMAIN x = {"null"}

-----------------------------------------------------------------------------
(* Text helpers                                                            *)

\* str.strip(): drop leading and trailing whitespace
RECURSIVE LStrip(_)
LStrip(s) ==
    IF s # <<>> /\ Head(s) = " " THEN LStrip(Tail(s)) ELSE s

RECURSIVE RStrip(_)
RStrip(s) ==
    IF s # <<>> /\ s[Len(s)] = " " THEN RStrip(SubSeq(s, 1, Len(s) - 1)) ELSE s

Strip(s) == RStrip(LStrip(s))

\* str.upper() on the letters that occur in the modelled symbols
UpperChar(c) ==
    CASE c = "d" -> "D"
      [] c = "g" -> "G"
      [] c = "s" -> "S"
      [] c = "r" -> "R"
      [] c = "a" -> "A"
      [] c = "t" -> "T"
      [] c = "e" -> "E"
      [] c = "c" -> "C"
      [] c = "p" -> "P"
      [] c = "i" -> "I"
      [] OTHER -> c

Upper(s) == [k \in 1..Len(s) |-> UpperChar(s[k])]

\* the Python operator "k in s" on strings
Contains(s, k) ==
    \E p \in 0..(Len(s) - Len(k)) : SubSeq(s, p + 1, p + Len(k)) = k

\* str.replace(c, "") for a one-character c
RECURSIVE Remove(_, _)
Remove(s, c) ==
    IF s = <<>> THEN <<>>
    ELSE IF Head(s) = c THEN Remove(Tail(s), c)
    ELSE <<Head(s)>> \o Remove(Tail(s), c)

-----------------------------------------------------------------------------
(* Numbers                                                                 *)

Digits == <<"0", "1", "2", "3", "4", "5", "6", "7", "8", "9">>
IsDigit(c) == \E d \in 1..10 : Digits[d] = c
DigitVal(c) == (CHOOSE d \in 1..10 : Digits[d] = c) - 1

RECURSIVE Pow10(_)
Pow10(n) == IF n = 0 THEN 1 ELSE 10 * Pow10(n - 1)

\* fractional digits kept by the model of a float
FracDigits == 7
Frac == Pow10(FracDigits)

RECURSIVE DigitsVal(_)
DigitsVal(s) ==
    IF s = <<>> THEN 0 ELSE 10 * DigitsVal(SubSeq(s, 1, Len(s) - 1)) + DigitVal(s[Len(s)])

AllDigits(s) == \A k \in 1..Len(s) : IsDigit(s[k])

Zero == [neg |-> FALSE, i |-> 0, f |-> 0]

\* float(s): surrounding whitespace, an optional sign, decimal digits with an
\* optional point and at least one digit; anything else raises ValueError,
\* modelled as Null.  (Exponents, underscores, "inf" and "nan" are outside
\* the modelled texts.)
PyFloat(s) ==
    LET t    == Strip(s)
        sgn  == t # <<>> /\ Head(t) \in {"-", "+"}
        body == IF sgn THEN Tail(t) ELSE t
        dots == {k \in 1..Len(body) : body[k] = "."}
        dot  == IF dots = {} THEN Len(body) + 1 ELSE CHOOSE k \in dots : TRUE
        ip   == SubSeq(body, 1, dot - 1)
        fp   == SubSeq(body, dot + 1, Len(body))
    IN  IF /\ Cardinality(dots) <= 1
           /\ AllDigits(ip) /\ AllDigits(fp)
           /\ Len(ip) + Len(fp) >= 1
           /\ Len(fp) <= FracDigits
        THEN [neg |-> sgn /\ Head(t) = "-",
              i   |-> DigitsVal(ip),
              f   |-> DigitsVal(fp) * Pow10(FracDigits - Len(fp))]
        ELSE Null

\* magnitude comparison and arithmetic on [i, f]
MagLess(a, b) == a.i < b.i \/ (a.i = b.i /\ a.f < b.f)
MagAdd(a, b) ==
    IF a.f + b.f >= Frac THEN [i |-> a.i + b.i + 1, f |-> a.f + b.f - Frac]
    ELSE [i |-> a.i + b.i, f |-> a.f + b.f]
MagSub(a, b) ==    \* a >= b
    IF a.f >= b.f THEN [i |-> a.i - b.i, f |-> a.f - b.f]
    ELSE [i |-> a.i - b.i - 1, f |-> a.f + Frac - b.f]

Signed(n, m) == [neg |-> n, i |-> m.i, f |-> m.f]

\* a - b on floats (x - x is +0.0)
Sub(a, b) ==
    IF a.neg # b.neg THEN Signed(a.neg, MagAdd(a, b))
    ELSE IF MagLess(a, b) THEN Signed(~a.neg, MagSub(b, a))
    ELSE IF MagLess(b, a) THEN Signed(a.neg, MagSub(a, b))
    ELSE Zero

\* round(x, nd): the possible results.  The sign is kept (round(-0.001, 2)
\* is -0.0); on an exact decimal tie the binary value of x decides, so both
\* neighbours are possible.
RoundSet(x, nd) ==
    LET unit == Pow10(FracDigits - nd)
        rem  == x.f % unit
        down == [i |-> x.i, f |-> x.f - rem]
        upf  == x.f - rem + unit
        up   == IF upf >= Frac THEN [i |-> x.i + 1, f |-> upf - Frac]
                ELSE [i |-> x.i, f |-> upf]
    IN  IF 2 * rem < unit THEN {Signed(x.neg, down)}
        ELSE IF 2 * rem > unit THEN {Signed(x.neg, up)}
        ELSE {Signed(x.neg, down), Signed(x.neg, up)}

\* decimal digits of a natural number
RECURSIVE NatStr(_)
NatStr(n) ==
    IF n < 10 THEN <<Digits[n + 1]>> ELSE NatStr(n \div 10) \o <<Digits[(n % 10) + 1]>>

RECURSIVE TrimZeros(_)
TrimZeros(s) ==
    IF s # <<>> /\ s[Len(s)] = "0" THEN TrimZeros(SubSeq(s, 1, Len(s) - 1)) ELSE s

PadLeft(s, n) == [k \in 1..(n - Len(s)) |-> "0"] \o s

\* str(x) of a float: repr gives positional notation with at least one
\* fractional digit for 1e-4 <= |x| < 1e16 and for zero, and exponent
\* notation below 1e-4
PyStr(x) ==
    LET sign == IF x.neg THEN <<"-">> ELSE <<>>
        fr   == TrimZeros(PadLeft(NatStr(x.f), FracDigits))
        sig  == TrimZeros(NatStr(x.f))
        ex   == FracDigits - Len(NatStr(x.f)) + 1
    IN  IF x.i = 0 /\ x.f > 0 /\ x.f < Pow10(FracDigits - 4)
        THEN sign \o <<Head(sig)>>
                  \o (IF Len(sig) > 1 THEN <<".">> \o Tail(sig) ELSE <<>>)
                  \o <<"e", "-">> \o PadLeft(NatStr(ex), 2)
        ELSE sign \o NatStr(x.i) \o <<".">> \o (IF fr = <<>> THEN <<"0">> ELSE fr)

-----------------------------------------------------------------------------
(* Configuration                                                           *)

COL_SYMBOL == "text_mkwxpng"
COL_RATE   == "numeric_mkwxeqs"
COL_INDEX  == "numeric_mkzvts68"
COL_DATE   == "date4"
COL_SOURCE == "text_mkwxc0yj"

\* the "limit" parameter of the FRED request
FRED_LIMIT == 20

\* Bounds of the model
MaxPages   == 2    \* page requests of one enumeration
MaxPageLen == 2    \* items of one page
MaxRows    == 2    \* rows the board returns in one run
MaxDay     == 2    \* calendar days before the day of the run
MaxK       == 21   \* leading missing observations of a series

VARIABLES
    pc,              \* position of the script
    COL_DELTA,       \* column id of the optional delta column, or None
    today,           \* the calendar day of the run, read by datetime.date.today()
    cursor,          \* fetch_all_items: continuation cursor
    items,           \* fetch_all_items: items, then all_items of __main__
    idx,             \* 1-based position of the main loop in all_items
    updated, skipped_manual, failed, failures,
    val,             \* value returned by the latest fetch_latest_fred_value
    e,               \* the exception caught by the latest except clause
    vals,            \* column values built by the latest update_item
    fredSeries,      \* the series FRED holds for the latest request, newest first
    calls            \* every outbound request with its response, in order

vars == <<pc, COL_DELTA, today, cursor, items, idx, updated, skipped_manual,
          failed, failures, val, e, vals, fredSeries, calls>>

-----------------------------------------------------------------------------
(* is_rate_series                                                          *)

rate_keywords ==
    << <<"D", "G", "S">>,
       <<"S", "O", "F", "R">>,
       <<"P", "R", "I", "M", "E">>,
       <<"F", "E", "D", "F", "U", "N", "D", "S">>,
       <<"M", "O", "R", "T", "G", "A", "G", "E">>,
       <<"U", "N", "R", "A", "T", "E">>,
       <<"D", "R", "C", "L">>,
       <<"D", "R", "T", "S">>,
       <<"R", "A", "T", "E">>,
       <<"B", "S", "B", "Y">>,
       <<"S", "W", "A", "P">> >>

is_rate_series(symbol) ==
    LET s == Strip(Upper(symbol))
    IN  \E k \in 1..Len(rate_keywords) : Contains(s, rate_keywords[k])

-----------------------------------------------------------------------------
(* monday_request                                                          *)

\* A response of the Monday endpoint: sent is FALSE when requests.post itself
\* raises (connection error, timeout); body is Null when r.json() raises,
\* else the decoded object with its optional "errors" and "data" members.
\* An exception is its message and the text interpolated into it.
Raise(m, d) == [raise |-> TRUE, err |-> [msg |-> m, detail |-> d]]
Return(v) == [raise |-> FALSE, ret |-> v]

monday_request_NoErrorsCheck(r) ==
    IF ~r.sent THEN Raise("requests exception", <<>>)
    ELSE IF IsNull(r.body) THEN Raise("Monday decode error", <<>>)
    ELSE IF ~r.ok THEN Raise("Monday HTTP", <<>>)
    ELSE Return(r.body.data)

monday_request(r) ==
    IF ~r.sent THEN Raise("requests exception", <<>>)
    ELSE IF IsNull(r.body) THEN Raise("Monday decode error", <<>>)
    ELSE IF ~r.ok THEN Raise("Monday HTTP", <<>>)
    ELSE IF r.body.errors THEN Raise("Monday GraphQL errors", <<>>)
    ELSE Return(r.body.data)

MondayFailures ==
    { [sent |-> FALSE, ok |-> FALSE, body |-> Null],
      [sent |-> TRUE,  ok |-> TRUE,  body |-> Null],
      [sent |-> TRUE,  ok |-> FALSE, body |-> [errors |-> FALSE, data |-> Null]],
      [sent |-> TRUE,  ok |-> TRUE,  body |-> [errors |-> TRUE,  data |-> Null]] }

MondayOk(data) == [sent |-> TRUE, ok |-> TRUE, body |-> [errors |-> FALSE, data |-> data]]

-----------------------------------------------------------------------------
(* fetch_all_items                                                         *)

\* "not x" for a string, and for a text
Falsy(x) == x = None \/ x = ""
FalsyText(x) == x = NoneText \/ x = <<>>

\* cv_map.get(col, ""): the dict comprehension keeps the last entry of a
\* column id; a null text becomes "" and every text is stripped
CvGet(cvs, col) ==
    LET hits == {k \in 1..Len(cvs) : cvs[k].id = col}
        last == CHOOSE k \in hits : \A j \in hits : j <= k
    IN  IF hits = {} THEN <<>>
        ELSE Strip(IF FalsyText(cvs[last].text) THEN <<>> ELSE cvs[last].text)

\* the dict appended to items for one item of a page; column_values is
\* Null or [list |-> the column values]
ItemOf(it) ==
    LET cvs == IF IsNull(it.column_values) THEN <<>> ELSE it.column_values.list
    IN  [id         |-> NatStr(it.id),
         name       |-> it.name,
         symbol     |-> Strip(CvGet(cvs, COL_SYMBOL)),
         prev_rate  |-> CvGet(cvs, COL_RATE),
         prev_index |-> CvGet(cvs, COL_INDEX)]

PageItems_DropsLast(page) ==
    [k \in 1..(Len(page.items) - 1) |-> ItemOf(page.items[k])]

PageItems(page) == [k \in 1..Len(page.items) |-> ItemOf(page.items[k])]

\* the cursor clause of the query text
CursorClause(c) == IF Falsy(c) THEN None ELSE c

-----------------------------------------------------------------------------
(* fetch_latest_fred_value                                                 *)

Min(a, b) == IF a <= b THEN a ELSE b

\* the observations FRED returns for sort_order=desc and the given limit
FredReply(series, limit) == SubSeq(series, 1, Min(Len(series), limit))

Missing(v) == v = <<>> \/ v = <<".">> \/ v = NoneText

\* index of the first observation that the loop does not skip, 0 if none
FirstValid(obs) ==
    LET ok == {k \in 1..Len(obs) : ~Missing(obs[k].value)}
    IN  IF ok = {} THEN 0 ELSE CHOOSE k \in ok : \A j \in ok : k <= j

fetch_latest_fred_value(series_id, r) ==
    IF ~r.sent THEN Raise("requests exception", <<>>)
    ELSE IF ~r.ok THEN Raise("HTTPError", <<>>)
    ELSE IF IsNull(r.body) THEN Raise("JSONDecodeError", <<>>)
    ELSE LET obs == r.body.observations
             k   == FirstValid(obs)
         IN  IF k = 0
             THEN Raise("No valid observation for", series_id)
             ELSE IF IsNull(PyFloat(obs[k].value)) THEN Raise("ValueError", obs[k].value)
             ELSE Return(PyFloat(obs[k].value))

-----------------------------------------------------------------------------
(* parse_float_maybe, update_item                                          *)

parse_float_maybe_KeepsPercent(s) ==
    IF FalsyText(s) THEN Null
    ELSE PyFloat(Strip(Remove(s, ",")))

parse_float_maybe(s) ==
    IF FalsyText(s) THEN Null
    ELSE PyFloat(Strip(Remove(Remove(s, "%"), ",")))

\* datetime.date.isoformat()
IsoFormat(d) == <<"2", "0", "2", "4", "-", "0", "3", "-">> \o PadLeft(NatStr(d), 2)

\* a dict display: a later pair with the same key replaces an earlier one
DictOf(pairs) ==
    [k \in {pairs[n][1] : n \in 1..Len(pairs)} |->
        pairs[CHOOSE n \in 1..Len(pairs) :
                 /\ pairs[n][1] = k
                 /\ \A m \in 1..Len(pairs) : pairs[m][1] = k => m <= n][2]]

target_col(symbol) == IF is_rate_series(symbol) THEN COL_RATE ELSE COL_INDEX
clear_col(symbol)  == IF is_rate_series(symbol) THEN COL_INDEX ELSE COL_RATE

\* the possible values of write_value
write_value(item, new_value) ==
    IF is_rate_series(item.symbol) THEN RoundSet(new_value, 2) ELSE {new_value}

prev_val(item) ==
    IF is_rate_series(item.symbol) THEN parse_float_maybe(item.prev_rate)
    ELSE parse_float_maybe(item.prev_index)

\* the possible texts of the delta column for a written value w
delta_text(item, w) ==
    LET delta_val == Sub(w, prev_val(item))
    IN  IF is_rate_series(item.symbol)
        THEN {PyStr(d) : d \in RoundSet(delta_val, 2)}
        ELSE {PyStr(delta_val)}

update_vals_OmitsCleared(item, w, day, colDelta, dt) ==
    DictOf(<< <<target_col(item.symbol), PyStr(w)>>,
              <<COL_DATE, [date |-> IsoFormat(day)]>>,
              <<COL_SOURCE, "FRED">>,
              <<COL_SYMBOL, item.symbol>> >>
           \o (IF ~Falsy(colDelta) /\ ~IsNull(prev_val(item))
               THEN << <<colDelta, dt>> >> ELSE <<>>))

\* vals as update_item builds it for a written value w and a delta text dt
update_vals(item, w, day, colDelta, dt) ==
    DictOf(<< <<target_col(item.symbol), PyStr(w)>>,
              <<clear_col(item.symbol), <<>> >>,
              <<COL_DATE, [date |-> IsoFormat(day)]>>,
              <<COL_SOURCE, "FRED">>,
              <<COL_SYMBOL, item.symbol>> >>
           \o (IF ~Falsy(colDelta) /\ ~IsNull(prev_val(item))
               THEN << <<colDelta, dt>> >> ELSE <<>>))

\* every vals that update_item can send for item and new_value
update_item(item, new_value, day, colDelta) ==
    UNION { { update_vals(item, w, day, colDelta, dt) :
                dt \in IF IsNull(prev_val(item)) THEN {NoneText} ELSE delta_text(item, w) }
            : w \in write_value(item, new_value) }

-----------------------------------------------------------------------------
(* The environment: what the board and FRED can answer                     *)

T_dgs   == <<" ", "d", "g", "s", "1">>
T_cpi   == <<"C", "P", "I">>
T_rate  == <<"U", "n", "r", "a", "t", "e">>
T_blank == <<" ", " ">>
T_450p  == <<"4", ".", "5", "0", "%">>
T_1234  == <<"1", ",", "2", "3", "4", ".", "5">>
T_na    == <<"n", "/", "a">>
T_7     == <<"7">>

Cv(c, t) == [id |-> c, text |-> t]
RawItem(i, n, cvs) == [id |-> i, name |-> n, column_values |-> [list |-> cvs]]

\* a rate row with a previous rate and a stale index, a manual row, and an
\* index row with a previous index and a stale rate
RawRate  == RawItem(11, "10Y", <<Cv(COL_SYMBOL, T_dgs), Cv(COL_RATE, T_450p), Cv(COL_INDEX, T_7)>>)
RawBlank == RawItem(12, "SBA", <<Cv(COL_SYMBOL, T_blank), Cv(COL_RATE, T_7), Cv(COL_INDEX, NoneText)>>)
RawIndex == RawItem(13, "CPI", <<Cv(COL_SYMBOL, T_cpi), Cv(COL_RATE, T_7), Cv(COL_INDEX, T_1234)>>)

\* an index row whose previous index does not parse, a rate row without a
\* previous rate, a rate row whose previous rate does not parse (its rate
\* column is listed twice)
RawIndexNa == RawItem(14, "CPI", <<Cv(COL_INDEX, T_na), Cv(COL_RATE, T_450p), Cv(COL_SYMBOL, T_cpi)>>)
RawRateNew == RawItem(15, "UNRATE", <<Cv(COL_SYMBOL, T_rate), Cv(COL_RATE, <<>>), Cv(COL_INDEX, T_7)>>)
RawRateNa  == RawItem(16, "10Y", <<Cv(COL_SYMBOL, T_dgs), Cv(COL_RATE, T_450p), Cv(COL_RATE, T_na)>>)

\* the items the board serves during a run
RawItemPool == {RawRate, RawBlank, RawIndex}

RECURSIVE SeqsUpTo(_, _)
SeqsUpTo(S, n) ==
    IF n = 0 THEN {<<>>}
    ELSE LET shorter == SeqsUpTo(S, n - 1)
         IN  shorter \cup {Append(q, x) : q \in shorter, x \in S}

\* the cursor of a page: none or empty on the last page, else a token that
\* names the position reached
PageCursors == <<"c1", "c2", "c3", "c4">>
Cursors == {None, ""} \cup {PageCursors[k] : k \in 1..Len(PageCursors)}

PageData(its, c) == [boards |-> <<[items_page |-> [cursor |-> c, items |-> its]]>>]

\* a page answer is a failure, a success without the board data, or a page
PageResponses ==
    MondayFailures \cup {MondayOk(Null)}
        \cup {MondayOk(PageData(its, c)) : its \in SeqsUpTo(RawItemPool, MaxPageLen), c \in Cursors}

Obs(v, d) == [value |-> v, date |-> IsoFormat(d)]

T_4835 == <<"4", ".", "8", "3", "5", "1", "2", "3", "4">>

\* series as FRED holds them, newest first
SeriesPool ==
    { << Obs(<<".">>, 3), Obs(<<>>, 2) >>,
      << Obs(<<".">>, 3), Obs(T_4835, 2), Obs(<<"4", ".", "7">>, 1) >> }

FredOk(series) ==
    [sent |-> TRUE, ok |-> TRUE, body |-> [observations |-> FredReply(series, FRED_LIMIT)]]

FredFailures ==
    { [sent |-> FALSE, ok |-> FALSE, body |-> Null],
      [sent |-> TRUE,  ok |-> FALSE, body |-> Null],
      [sent |-> TRUE,  ok |-> TRUE,  body |-> Null] }

\* what FRED answers for a series it holds, or a failure
FredAnswers == {[series |-> s, resp |-> FredOk(s)] : s \in SeriesPool}
                   \cup {[series |-> <<>>, resp |-> r] : r \in FredFailures}

MutationResponses == MondayFailures \cup {MondayOk([change_multiple_column_values |-> TRUE])}

-----------------------------------------------------------------------------
(* The run                                                                 *)

Call(k, row, c, sid, item, v, series, resp) ==
    [kind |-> k, row |-> row, cursor |-> c, series_id |-> sid, item |-> item,
     vals |-> v, series |-> series, resp |-> resp]

PageCall(c, resp) == Call("page", 0, CursorClause(c), <<>>, <<>>, <<>>, <<>>, resp)
FredCall(row, sid, series, resp) == Call("fred", row, None, sid, <<>>, <<>>, series, resp)
MutationCall(row, id, v, resp) == Call("mutation", row, None, <<>>, id, v, <<>>, resp)

NumCalls(k) == Cardinality({n \in 1..Len(calls) : calls[n].kind = k})

\* the day of the run, the day of the newest observation FRED holds
RunDay == MaxDay + 1

Init ==
    /\ pc = "enumerate"
    /\ COL_DELTA = None
    /\ today = RunDay
    /\ cursor = None
    /\ items = <<>>
    /\ idx = 1
    /\ updated = 0
    /\ skipped_manual = 0
    /\ failed = 0
    /\ failures = <<>>
    /\ val = Null
    /\ e = Null
    /\ vals = <<>>
    /\ fredSeries = <<>>
    /\ calls = <<>>

request_page_Swallows(resp) ==
    LET r == monday_request(resp)
    IN  IF r.raise \/ IsNull(r.ret) THEN Return([cursor |-> None, items |-> <<>>])
        ELSE Return(r.ret.boards[1].items_page)

\* data = monday_request(...); page = data["boards"][0]["items_page"]
request_page(resp) ==
    LET r == monday_request(resp)
    IN  IF r.raise THEN r
        ELSE IF IsNull(r.ret) THEN Raise("KeyError", <<>>)
        ELSE Return(r.ret.boards[1].items_page)

\* the answer the board gives to a page request, within the bounds: a page
\* that is followed by another one holds items and its own cursor
PageAnswer(resp) ==
    ~request_page(resp).raise =>
        LET page == request_page(resp).ret
            n    == NumCalls("page") + 1
        IN  /\ Len(items) + Len(page.items) <= MaxRows
            /\ n >= MaxPages => Falsy(page.cursor)
            /\ ~Falsy(page.cursor) => page.items # <<>> /\ page.cursor = PageCursors[n]

\* one iteration of the while loop of fetch_all_items that reads a page
FetchPage ==
    /\ pc = "enumerate"
    /\ \E resp \in PageResponses :
         /\ PageAnswer(resp)
         /\ ~request_page(resp).raise
         /\ LET page == request_page(resp).ret
            IN  /\ items' = items \o PageItems(page)
                /\ cursor' = page.cursor
                /\ pc' = IF Falsy(page.cursor) THEN "loop" ELSE "enumerate"
         /\ calls' = Append(calls, PageCall(cursor, resp))
    /\ UNCHANGED <<COL_DELTA, today, idx, updated, skipped_manual, failed,
                   failures, val, e, vals, fredSeries>>

\* a page request raises (or data["boards"] does): nothing catches it
EnumerationFails ==
    /\ pc = "enumerate"
    /\ \E resp \in PageResponses :
         /\ request_page(resp).raise
         /\ e' = request_page(resp).err
         /\ calls' = Append(calls, PageCall(cursor, resp))
    /\ pc' = "aborted"
    /\ UNCHANGED <<COL_DELTA, today, cursor, items, idx, updated, skipped_manual,
                   failed, failures, val, vals, fredSeries>>

InLoop == pc = "loop" /\ idx <= Len(items)

\* symbol = (it.get("symbol") or "").strip()
LoopSymbol(it) == Strip(IF FalsyText(it.symbol) THEN <<>> ELSE it.symbol)

\* "if not symbol": the row is maintained by hand
IsManual_NoneOnly(it) == it.symbol = NoneText
IsManual(it) == FalsyText(LoopSymbol(it))

\* msg of the except clause
FailureMsg(it, symbol, ex) == [name |-> it.name, symbol |-> symbol, id |-> it.id, e |-> ex]

\* the iteration for a row with a blank symbol
SkipManual ==
    /\ InLoop
    /\ IsManual(items[idx])
    /\ skipped_manual' = skipped_manual + 1
    /\ idx' = idx + 1
    /\ UNCHANGED <<pc, COL_DELTA, today, cursor, items, updated, failed, failures,
                   val, e, vals, fredSeries, calls>>

FetchFails_Retries ==
    /\ InLoop
    /\ LET it == items[idx]
           symbol == LoopSymbol(it)
       IN  /\ ~IsManual(it)
           /\ \E a \in FredAnswers :
                LET r == fetch_latest_fred_value(symbol, a.resp)
                IN  /\ r.raise
                    /\ e' = r.err
                    /\ failed' = failed + 1
                    /\ failures' = Append(failures, FailureMsg(it, symbol, r.err))
                    /\ fredSeries' = a.series
                    /\ calls' = Append(calls, FredCall(idx, symbol, a.series, a.resp))
    /\ UNCHANGED <<pc, COL_DELTA, today, cursor, items, idx, updated, skipped_manual,
                   val, vals>>

\* the iteration in which fetch_latest_fred_value raises
FetchFails ==
    /\ InLoop
    /\ LET it == items[idx]
           symbol == LoopSymbol(it)
       IN  /\ ~IsManual(it)
           /\ \E a \in FredAnswers :
                LET r == fetch_latest_fred_value(symbol, a.resp)
                IN  /\ r.raise
                    /\ e' = r.err
                    /\ failed' = failed + 1
                    /\ failures' = Append(failures, FailureMsg(it, symbol, r.err))
                    /\ fredSeries' = a.series
                    /\ calls' = Append(calls, FredCall(idx, symbol, a.series, a.resp))
    /\ idx' = idx + 1
    /\ UNCHANGED <<pc, COL_DELTA, today, cursor, items, updated, skipped_manual,
                   val, vals>>

\* the fetch of an iteration returns and update_item sends its mutation
FetchAndSend(it, symbol, a, mresp) ==
    LET r == fetch_latest_fred_value(symbol, a.resp)
    IN  /\ ~r.raise
        /\ val' = r.ret
        /\ vals' \in update_item(it, r.ret, today, COL_DELTA)
        /\ fredSeries' = a.series
        /\ calls' = calls \o << FredCall(idx, symbol, a.series, a.resp),
                               MutationCall(idx, it.id, vals', mresp) >>

UpdateFails_CountsUpdated ==
    /\ InLoop
    /\ LET it == items[idx]
           symbol == LoopSymbol(it)
       IN  /\ ~IsManual(it)
           /\ \E a \in FredAnswers, mresp \in MutationResponses :
                /\ FetchAndSend(it, symbol, a, mresp)
                /\ monday_request(mresp).raise
                /\ e' = monday_request(mresp).err
                /\ updated' = updated + 1
                /\ failed' = failed + 1
                /\ failures' = Append(failures, FailureMsg(it, symbol, monday_request(mresp).err))
    /\ idx' = idx + 1
    /\ UNCHANGED <<pc, COL_DELTA, today, cursor, items, skipped_manual>>

\* the iteration in which the fetch returns and update_item raises
UpdateFails ==
    /\ InLoop
    /\ LET it == items[idx]
           symbol == LoopSymbol(it)
       IN  /\ ~IsManual(it)
           /\ \E a \in FredAnswers, mresp \in MutationResponses :
                /\ FetchAndSend(it, symbol, a, mresp)
                /\ monday_request(mresp).raise
                /\ e' = monday_request(mresp).err
                /\ failed' = failed + 1
                /\ failures' = Append(failures, FailureMsg(it, symbol, monday_request(mresp).err))
    /\ idx' = idx + 1
    /\ UNCHANGED <<pc, COL_DELTA, today, cursor, items, updated, skipped_manual>>

\* the iteration in which the fetch returns and the mutation is accepted
RowUpdated ==
    /\ InLoop
    /\ LET it == items[idx]
           symbol == LoopSymbol(it)
       IN  /\ ~IsManual(it)
           /\ \E a \in FredAnswers, mresp \in MutationResponses :
                /\ FetchAndSend(it, symbol, a, mresp)
                /\ ~monday_request(mresp).raise
                /\ updated' = updated + 1
    /\ idx' = idx + 1
    /\ UNCHANGED <<pc, COL_DELTA, today, cursor, items, skipped_manual, failed,
                   failures, e>>

\* the for loop is exhausted: the summary is printed
Summary ==
    /\ pc = "loop"
    /\ idx > Len(items)
    /\ pc' = "summary"
    /\ UNCHANGED <<COL_DELTA, today, cursor, items, idx, updated, skipped_manual,
                   failed, failures, val, e, vals, fredSeries, calls>>

Next ==
    \/ FetchPage
    \/ EnumerationFails
    \/ SkipManual
    \/ FetchFails
    \/ UpdateFails
    \/ RowUpdated
    \/ Summary

Spec == Init /\ [][Next]_vars

TypeOK ==
    /\ pc \in {"enumerate", "loop", "summary", "aborted"}
    /\ idx \in 1..(Len(items) + 1)
    /\ updated \in Nat /\ skipped_manual \in Nat /\ failed \in Nat

-----------------------------------------------------------------------------
(* fetch_latest_fred_value on its own: one call for a series of FRED       *)

T_483 == <<"4", ".", "8", "3">>

\* the missing-data tokens FRED and JSON can put in a value
Sentinel(kind, p) ==
    LET tokens == << <<".">>, <<>>, NoneText >>
    IN  IF kind = 4 THEN tokens[(p % 3) + 1] ELSE tokens[kind]

TailValues == {T_483, T_na, <<".">>, <<"-", "0", ".", "5">>}

\* K missing observations, then a tail; newer observations have later dates
SeriesOf(K, kind, tail) ==
    [p \in 1..(K + Len(tail)) |->
        Obs(IF p <= K THEN Sentinel(kind, p) ELSE tail[p - K], 31 - p)]

FetchSeriesPool ==
    {SeriesOf(K, kind, tail) : K \in 0..MaxK, kind \in 1..4, tail \in SeqsUpTo(TailValues, 2)}

InitFetch ==
    /\ pc = "fetch"
    /\ fredSeries \in FetchSeriesPool
    /\ items = <<ItemOf(RawRate)>>
    /\ idx = 1
    /\ COL_DELTA = None
    /\ today = 1
    /\ cursor = None
    /\ updated = 0
    /\ skipped_manual = 0
    /\ failed = 0
    /\ failures = <<>>
    /\ val = Null
    /\ e = Null
    /\ vals = <<>>
    /\ calls = <<>>

FetchResult == fetch_latest_fred_value(items[1].symbol, FredOk(fredSeries))

FetchReturns ==
    /\ pc = "fetch"
    /\ ~FetchResult.raise
    /\ val' = FetchResult.ret
    /\ pc' = "fetched"
    /\ calls' = Append(calls, FredCall(1, items[1].symbol, fredSeries, FredOk(fredSeries)))
    /\ UNCHANGED <<COL_DELTA, today, cursor, items, idx, updated, skipped_manual,
                   failed, failures, e, vals, fredSeries>>

FetchRaises ==
    /\ pc = "fetch"
    /\ FetchResult.raise
    /\ e' = FetchResult.err
    /\ pc' = "fetched"
    /\ calls' = Append(calls, FredCall(1, items[1].symbol, fredSeries, FredOk(fredSeries)))
    /\ UNCHANGED <<COL_DELTA, today, cursor, items, idx, updated, skipped_manual,
                   failed, failures, val, vals, fredSeries>>

NextFetch == FetchReturns \/ FetchRaises

SpecFetch == InitFetch /\ [][NextFetch]_vars

-----------------------------------------------------------------------------
(* update_item on its own: one call for an item and a fetched value        *)

UpdateItems == {ItemOf(r) : r \in {RawRate, RawIndex, RawIndexNa, RawRateNew, RawRateNa}}

NewValues ==
    { PyFloat(t) : t \in { T_483, T_4835,
                           <<"4", ".", "8", "3", "5">>,
                           <<"1", "2", "3", "4", ".", "5", "0", "0", "0", "0", "0", "1">>,
                           <<"-", "0", ".", "0", "0", "4">>,
                           <<"4", ".", "5">> } }

InitUpdate ==
    /\ pc = "update"
    /\ items \in {<<it>> : it \in UpdateItems}
    /\ val \in NewValues
    /\ COL_DELTA \in {None, "numeric_delta"}
    /\ today \in 1..RunDay
    /\ idx = 1
    /\ cursor = None
    /\ updated = 0
    /\ skipped_manual = 0
    /\ failed = 0
    /\ failures = <<>>
    /\ e = Null
    /\ vals = <<>>
    /\ fredSeries = <<>>
    /\ calls = <<>>

BuildVals ==
    /\ pc = "update"
    /\ vals' \in update_item(items[1], val, today, COL_DELTA)
    /\ pc' = "updated"
    /\ UNCHANGED <<COL_DELTA, today, cursor, items, idx, updated, skipped_manual,
                   failed, failures, val, e, fredSeries, calls>>

NextUpdate == BuildVals

SpecUpdate == InitUpdate /\ [][NextUpdate]_vars

-----------------------------------------------------------------------------
(* Properties of the run                                                   *)

AllSpaces(t) == \A k \in 1..Len(t) : t[k] = " "

\* a Monday answer that is not a decodable success without an errors member
MondayBad(r) == ~r.sent \/ IsNull(r.body) \/ ~r.ok \/ r.body.errors

\* a FRED answer from which no value can be taken
FredBad(r) ==
    \/ ~r.sent \/ ~r.ok \/ IsNull(r.body)
    \/ \A k \in 1..Len(r.body.observations) :
          r.body.observations[k].value \in {<<>>, <<".">>, NoneText}

CallsOf(k) == {n \in 1..Len(calls) : calls[n].kind = k}
LastCall(cs) == cs[Len(cs)]

\* C1: a step of the main loop on a row whose symbol is blank issues no
\* request, adds one to the skipped counter and leaves the updated counter,
\* the failed counter and the failures list as they were
C1_BlankRowSkipped ==
    [][ (InLoop /\ AllSpaces(items[idx].symbol)) =>
            /\ calls' = calls
            /\ skipped_manual' = skipped_manual + 1
            /\ updated' = updated
            /\ failed' = failed
            /\ failures' = failures
            /\ idx' = idx + 1 ]_vars

C1_Witness ==
    /\ pc = "loop" /\ idx = 3
    /\ AllSpaces(items[1].symbol) /\ ~AllSpaces(items[2].symbol)
    /\ skipped_manual = 1 /\ updated = 1

\* C2: a step of the main loop in which the fetch or the update of a row with
\* a symbol fails adds one to the failed counter, appends one message with the
\* row's name, symbol and id, leaves the updated counter alone and leaves the
\* loop at the next row; the run is never aborted once the loop has begun
C2_RowFailureIsolated ==
    [][ (/\ InLoop
         /\ ~AllSpaces(items[idx].symbol)
         /\ Len(calls') > Len(calls)
         /\ \/ LastCall(calls').kind = "fred" /\ FredBad(LastCall(calls').resp)
            \/ LastCall(calls').kind = "mutation" /\ MondayBad(LastCall(calls').resp))
        => /\ failed' = failed + 1
           /\ Len(failures') = Len(failures) + 1
           /\ SubSeq(failures', 1, Len(failures)) = failures
           /\ LastCall(failures').name = items[idx].name
           /\ LastCall(failures').symbol = items[idx].symbol
           /\ LastCall(failures').id = items[idx].id
           /\ updated' = updated
           /\ idx' = idx + 1
           /\ pc' = "loop" ]_vars

C2_Witness ==
    /\ pc = "summary" /\ Len(items) = 2
    /\ failed = 1 /\ updated = 1
    /\ \E n \in CallsOf("mutation") : calls[n].row = 1 /\ MondayBad(calls[n].resp)
    /\ \E n \in CallsOf("mutation") : calls[n].row = 2 /\ ~MondayBad(calls[n].resp)

\* a page answer from which no page can be taken
PageBad(r) == MondayBad(r) \/ IsNull(r.body.data)

PageOf(r) == r.body.data.boards[1].items_page

PageSeq == SelectSeq(calls, LAMBDA c : c.kind = "page")

\* C3: a failed page request aborts the run with no FRED fetch and no mutation
\* issued, also after earlier pages were read; otherwise every page is read
\* before the first fetch, and the rows are then taken one at a time in the
\* order of the enumeration
C3_EnumerationAllOrNothing ==
    LET pages  == CallsOf("page")
        others == (1..Len(calls)) \ pages
    IN  /\ (\E n \in pages : PageBad(calls[n].resp)) => pc = "aborted"
        /\ pc = "aborted" => others = {}
        /\ \A n \in others : \A m \in pages : m < n
        /\ others # {} =>
             /\ pc \in {"loop", "summary"}
             /\ Falsy(PageOf(LastCall(PageSeq).resp).cursor)
             /\ \A n \in others :
                  /\ calls[n].row \in 1..Len(items)
                  /\ calls[n].row < idx
                  /\ calls[n].kind = "fred" => calls[n].series_id = items[calls[n].row].symbol
                  /\ calls[n].kind = "mutation" => calls[n].item = items[calls[n].row].id
             /\ \A m, n \in others : m < n => calls[m].row <= calls[n].row

C3_Witness ==
    /\ pc = "aborted"
    /\ Len(calls) = 2
    /\ ~PageBad(calls[1].resp) /\ Len(PageOf(calls[1].resp).items) > 0
    /\ PageBad(calls[2].resp)

RECURSIVE RawIds(_)
RawIds(ps) ==
    IF ps = <<>> THEN <<>>
    ELSE LET its == IF PageBad(Head(ps).resp) THEN <<>> ELSE PageOf(Head(ps).resp).items
         IN  [k \in 1..Len(its) |-> its[k].id] \o RawIds(Tail(ps))

\* C7: the first page is requested without a cursor and every later page with
\* the cursor of the page before it; fetch_all_items returns exactly when a
\* page without a cursor has been received, and its items are the items of
\* all pages received, each once and in page order
C7_Pagination ==
    /\ PageSeq # <<>> => PageSeq[1].cursor = None
    /\ \A k \in 2..Len(PageSeq) :
         /\ ~PageBad(PageSeq[k - 1].resp)
         /\ ~Falsy(PageOf(PageSeq[k - 1].resp).cursor)
         /\ PageSeq[k].cursor = PageOf(PageSeq[k - 1].resp).cursor
    /\ pc \in {"loop", "summary"} <=>
         /\ PageSeq # <<>>
         /\ ~PageBad(LastCall(PageSeq).resp)
         /\ Falsy(PageOf(LastCall(PageSeq).resp).cursor)
    /\ [k \in 1..Len(items) |-> items[k].id]
         = [k \in 1..Len(RawIds(PageSeq)) |-> NatStr(RawIds(PageSeq)[k])]

C7_Witness ==
    /\ pc = "loop"
    /\ Len(PageSeq) = 2
    /\ Len(PageOf(PageSeq[1].resp).items) = 1
    /\ PageSeq[2].cursor = "c1"
    /\ Len(items) = 2
    /\ items[1].id # items[2].id

\* C9: for every row at most one FRED request and at most one mutation are
\* issued; a mutation directly follows the fetch of the same row, which gave a
\* value, and carries the target, the cleared field, the date, the source and
\* the symbol in one request
C9_NoRetryOneRequest ==
    /\ \A r \in 1..Len(items) :
         /\ Cardinality({n \in CallsOf("fred") : calls[n].row = r}) <= 1
         /\ Cardinality({n \in CallsOf("mutation") : calls[n].row = r}) <= 1
    /\ \A n \in CallsOf("mutation") :
         /\ n > 1
         /\ calls[n - 1].kind = "fred"
         /\ calls[n - 1].row = calls[n].row
         /\ ~FredBad(calls[n - 1].resp)
         /\ {COL_RATE, COL_INDEX, COL_DATE, COL_SOURCE, COL_SYMBOL} \subseteq DOMAIN calls[n].vals

C9_Witness ==
    /\ pc = "summary"
    /\ Len(items) = 2
    /\ \E n \in CallsOf("fred") : calls[n].row = 1 /\ FredBad(calls[n].resp)
    /\ \E n \in CallsOf("mutation") : calls[n].row = 2 /\ MondayBad(calls[n].resp)
    /\ Len(calls) = NumCalls("page") + 3

\* C10: in the loop the three counters add up to the number of rows processed
\* and the failures list is as long as the failed counter; at the summary they
\* add up to the number of rows, and updated is the number of accepted
\* mutations
C10_Accounting ==
    /\ pc \in {"loop", "summary"} =>
         /\ updated + skipped_manual + failed = idx - 1
         /\ Len(failures) = failed
    /\ pc = "summary" =>
         /\ updated + skipped_manual + failed = Len(items)
         /\ updated = Cardinality({n \in CallsOf("mutation") : ~MondayBad(calls[n].resp)})

C10_Witness ==
    /\ pc = "summary"
    /\ failed = 1 /\ skipped_manual = 1 /\ updated = 0
    /\ NumCalls("mutation") = 1

\* C6: the date written for a row is the date of the observation whose value
\* is written
C6_DateIsObservationDate ==
    \A n \in CallsOf("mutation") :
        LET obs == calls[n - 1].resp.body.observations
        IN  calls[n].vals[COL_DATE].date = obs[FirstValid(obs)].date

-----------------------------------------------------------------------------
(* Properties of fetch_latest_fred_value                                   *)

\* number of leading observations whose value is a missing-data token
LeadingMissing(series) ==
    LET bad(p) == series[p].value \in {<<>>, <<".">>, NoneText}
    IN  Cardinality({k \in 1..Len(series) : \A p \in 1..k : bad(p)})

\* the date that comes back from the fetch: the float it returns has none
ReturnedDate == IF "date" \in DOMAIN val THEN val.date ELSE NoneText

\* C5: when the K newest observations are missing and the next one is a
\* number, the fetch returns the value and the date of that observation; when
\* the scanned window has no valid observation it fails naming the series
C5_ReturnsValueAndDate ==
    pc = "fetched" =>
        LET K == LeadingMissing(fredSeries)
        IN  /\ (K < Len(fredSeries) /\ ~IsNull(PyFloat(fredSeries[K + 1].value))) =>
                 /\ val = PyFloat(fredSeries[K + 1].value)
                 /\ ReturnedDate = fredSeries[K + 1].date
            /\ K >= Min(Len(fredSeries), FRED_LIMIT) =>
                 /\ val = Null
                 /\ e = [msg |-> "No valid observation for", detail |-> items[1].symbol]

\* what the fetch does return: the value of observation K + 1 when it lies
\* within the FRED_LIMIT newest observations, and the named failure when the
\* window holds no valid observation
FetchValueWithinWindow ==
    pc = "fetched" =>
        LET K == LeadingMissing(fredSeries)
        IN  /\ (K < Min(Len(fredSeries), FRED_LIMIT) /\ ~IsNull(PyFloat(fredSeries[K + 1].value))) =>
                 val = PyFloat(fredSeries[K + 1].value) /\ e = Null
            /\ K >= Min(Len(fredSeries), FRED_LIMIT) =>
                 /\ val = Null
                 /\ e = [msg |-> "No valid observation for", detail |-> items[1].symbol]

-----------------------------------------------------------------------------
(* Properties of update_item                                               *)

TargetOf(it) == IF is_rate_series(it.symbol) THEN COL_RATE ELSE COL_INDEX
OtherOf(it)  == IF is_rate_series(it.symbol) THEN COL_INDEX ELSE COL_RATE
PrevText(it) == IF is_rate_series(it.symbol) THEN it.prev_rate ELSE it.prev_index
Written(it, v) == IF is_rate_series(it.symbol) THEN RoundSet(v, 2) ELSE {v}

\* C4: the column values of an update hold both the rate and the index
\* column; the target column holds the written value and the other column
\* the empty string, so at most one of the two is non-empty
C4_OtherFieldCleared ==
    pc = "updated" =>
        LET it == items[1]
        IN  /\ {COL_RATE, COL_INDEX} \subseteq DOMAIN vals
            /\ vals[TargetOf(it)] \in {PyStr(w) : w \in Written(it, val)}
            /\ vals[TargetOf(it)] # <<>>
            /\ vals[OtherOf(it)] = <<>>
            /\ ~(vals[COL_RATE] # <<>> /\ vals[COL_INDEX] # <<>>)

C4_Witness ==
    /\ pc = "updated"
    /\ items[1].symbol = T_cpi
    /\ items[1].prev_rate = T_7
    /\ vals[COL_RATE] = <<>>
    /\ vals[COL_INDEX] = T_4835

\* the delta part of the column values, for nd decimals on index rows
DeltaAsClaimed(indexDecimals) ==
    LET it   == items[1]
        prev == PyFloat(Remove(Remove(PrevText(it), "%"), ","))
        nd   == IF is_rate_series(it.symbol) THEN {2} ELSE indexDecimals
    IN  /\ vals[TargetOf(it)] \in {PyStr(w) : w \in Written(it, val)}
        /\ (PrevText(it) = <<>> \/ IsNull(prev) \/ COL_DELTA = None) =>
              DOMAIN vals = {COL_RATE, COL_INDEX, COL_DATE, COL_SOURCE, COL_SYMBOL}
        /\ (PrevText(it) # <<>> /\ ~IsNull(prev) /\ COL_DELTA # None) =>
              /\ DOMAIN vals = {COL_RATE, COL_INDEX, COL_DATE, COL_SOURCE, COL_SYMBOL, COL_DELTA}
              /\ \E w \in Written(it, val) :
                   /\ vals[TargetOf(it)] = PyStr(w)
                   /\ vals[COL_DELTA] \in
                        IF nd = {} THEN {PyStr(Sub(w, prev))}
                        ELSE {PyStr(d) : d \in UNION {RoundSet(Sub(w, prev), n) : n \in nd}}

\* C8 as stated: the delta is the written value minus the previous value of
\* the target field, rounded to 2 decimals on rate rows and to 6 decimals on
\* index rows, and is absent when the previous text is empty or does not parse
C8_DeltaRounded ==
    pc = "updated" => DeltaAsClaimed({6})

\* C8 as amended: on index rows the delta is written as computed, unrounded
C8_DeltaIndexUnrounded ==
    pc = "updated" => DeltaAsClaimed({})

C8_Witness ==
    /\ pc = "updated"
    /\ COL_DELTA = "numeric_delta"
    /\ items[1].prev_rate = T_450p
    /\ val = PyFloat(T_483)
    /\ vals[COL_RATE] = T_483
    /\ vals[COL_DELTA] = <<"0", ".", "3", "3">>

====
